---- MODULE Spec2Model ----
(***************************************************************************)
(* Model of app/(chat)/api/chat/route.ts: the POST (turn submission) and   *)
(* DELETE (conversation deletion) handlers, the store they call, and the   *)
(* streaming generation engine POST starts.  Every await of a handler is   *)
(* one action, so concurrent requests interleave at the awaits.            *)
(***************************************************************************)
EXTENDS Integers, Sequences, FiniteSets, TLC

\* ------------------------------------------------------------------ bounds
MaxReq == 2        \* requests the server receives in one behaviour
MaxChats == 1      \* conversation ids the clients use
MaxHist == 2       \* length of the client-supplied message history
MaxDeltas == 1     \* text-delta events the engine emits in one turn
MaxCalls == 1      \* tool calls the model elects to make in one turn

\* ------------------------------------------------------- program constants
maxSteps_six == 5 + 1
maxSteps == 5      \* route.ts:93

Reqs == 1 .. MaxReq
Users == {"A", "B"}
ChatIds == 1 .. MaxChats
NoId == 0          \* searchParams.get('id') found no id

\* auth() returns null, a session without user, a user without id, or a user
Sessions == {"null", "nouser", "noid"} \cup Users

\* models.find((model) => model.id === modelId)
models == {"m1"}
ModelIds == {"m1", "mX"}

NoChat == [userId |-> "none", title |-> 0]

Roles == {"user", "assistant"}

RECURSIVE SeqsUpTo(_, _)
SeqsUpTo(S, n) ==
  IF n = 0 THEN {<<>>}
  ELSE LET shorter == SeqsUpTo(S, n - 1)
       IN  shorter \cup {Append(s, x) : s \in {t \in shorter : Len(t) = n - 1}, x \in S}

\* the message list of a request body: the roles of its messages, in order;
\* a message is identified by its position in the list.  The first request
\* carries any list of up to MaxHist messages, the others of up to one.
Histories(r) == SeqsUpTo(Roles, IF r = 1 THEN MaxHist ELSE 1)

VARIABLES
  chats,    \* store: chat id -> chat record (NoChat when there is none)
  msgs,     \* store: the message table, in insertion order
  rq        \* request slot -> the state of that request's handler

vars == <<chats, msgs, rq>>

Idle ==
  [ kind |-> "none", pc |-> "idle", id |-> NoId, session |-> "null",
    modelId |-> "", messages |-> <<>>, userMessage |-> 0, chat |-> NoChat,
    title |-> 0, created |-> NoChat, status |-> 0, dataStream |-> <<>>, closed |-> FALSE,
    steps |-> 0, deltas |-> 0, pendingCall |-> 0, stepText |-> FALSE,
    response |-> <<>>, calls |-> <<>>, thrown |-> "", writeBack |-> "",
    logged |-> 0 ]

TextPart == [type |-> "text", toolCallId |-> <<>>]
Part(type, callId) == [type |-> type, toolCallId |-> callId]

\* a conversation an earlier turn of user A left in the store: the chat
\* record and the user message of that turn
EarlierChat == [userId |-> "A", title |-> 1]
EarlierMessages(c) ==
  << [id |-> <<"in", 0, 1>>, chatId |-> c, role |-> "user",
      content |-> <<TextPart>>] >>

\* the store is empty, or holds one earlier conversation
Init ==
  /\ \/ chats = [c \in ChatIds |-> NoChat] /\ msgs = <<>>
     \/ \E c \in ChatIds :
          /\ chats = [d \in ChatIds |-> IF d = c THEN EarlierChat ELSE NoChat]
          /\ msgs = EarlierMessages(c)
  /\ rq = [r \in Reqs |-> Idle]

Set(r, rec) == rq' = [rq EXCEPT ![r] = rec]

Called(rec, fn) == [rec EXCEPT !.calls = Append(@, fn)]

Count(seq, x) == Cardinality({i \in 1 .. Len(seq) : seq[i] = x})

\* new Response(body, { status })
Respond(rec, status) == [rec EXCEPT !.status = status, !.pc = "done"]

\* the call just made rejects
Rejects(rec) == [rec EXCEPT !.thrown = rec.calls[Len(rec.calls)]]

\* the rejection is caught and the handler goes on to open the stream
Throw_swallowed(rec) == [Rejects(rec) EXCEPT !.pc = "createDataStreamResponse"]

\* an exception nothing in POST catches: the framework answers 500
Throw(rec) == Respond(Rejects(rec), 500)

\* ------------------------------------------------------------- helpers
\* session.user.id, when the session has one
userIdOf(session) == IF session \in Users THEN session ELSE "undefined"

\* the position of the last message of role user, 0 when there is none
getMostRecentUserMessage(messages) ==
  LET us == {i \in 1 .. Len(messages) : messages[i] = "user"}
  IN  IF us = {} THEN 0 ELSE CHOOSE i \in us : \A j \in us : j <= i

generateTitleFromUserMessage(message) == message

\* ------------------------------------------------------------ the store
getChatById(id) == chats[id]

saveChat(id, userId, title) ==
  chats' = [chats EXCEPT ![id] = [userId |-> userId, title |-> title]]

saveMessages(batch) == msgs' = msgs \o batch

deleteChatById(id) ==
  /\ chats' = [chats EXCEPT ![id] = NoChat]
  /\ msgs' = SelectSeq(msgs, LAMBDA m : m.chatId # id)

\* ------------------------------------------------------------------ POST
\* the model is looked up before the session is checked
POST_validate_modelFirst(session, modelId, userMessage) ==
  IF modelId \notin models THEN 404
  ELSE IF session \in {"null", "nouser", "noid"} THEN 401
  ELSE IF userMessage = 0 THEN 400
  ELSE 0

\* the three checks made before anything else: the status to answer with,
\* or 0 when the request passes all three
POST_validate(session, modelId, userMessage) ==
  IF session \in {"null", "nouser", "noid"} THEN 401
  ELSE IF modelId \notin models THEN 404
  ELSE IF userMessage = 0 THEN 400
  ELSE 0

\* the condition inverted: if (chat)
chatMissing_inverted(chat) == chat # NoChat

\* the test is dropped: a chat is created on every turn
chatMissing_always(chat) == TRUE

\* if (!chat)
chatMissing(chat) == chat = NoChat

\* the user message is not persisted before the response is opened
POST_next_withoutSave(rec) ==
  CASE rec.pc = "getChatById" ->
         IF chatMissing(rec.chat) THEN "generateTitle"
         ELSE "createDataStreamResponse"
    [] rec.pc = "generateTitle" -> "saveChat"
    [] rec.pc = "saveChat" -> "createDataStreamResponse"
    [] rec.pc = "saveMessages" -> "createDataStreamResponse"

\* the user message is persisted first, the chat record after it
POST_next_messageFirst(rec) ==
  CASE rec.pc = "getChatById" -> "saveMessages"
    [] rec.pc = "saveMessages" ->
         IF chatMissing(rec.chat) THEN "generateTitle"
         ELSE "createDataStreamResponse"
    [] rec.pc = "generateTitle" -> "saveChat"
    [] rec.pc = "saveChat" -> "createDataStreamResponse"

\* the await that follows the one that has just returned, rec.pc
POST_next(rec) ==
  CASE rec.pc = "getChatById" ->
         IF chatMissing(rec.chat) THEN "generateTitle" ELSE "saveMessages"
    [] rec.pc = "generateTitle" -> "saveChat"
    [] rec.pc = "saveChat" -> "saveMessages"
    [] rec.pc = "saveMessages" -> "createDataStreamResponse"

\* { id, userId: session.user.id, title }
POST_chatRecord(rec) == [userId |-> userIdOf(rec.session), title |-> rec.title]

\* messages[0] is persisted instead of userMessage
POST_userMessageRecord_first(r, rec) ==
  [ id |-> <<"in", r, 1>>, chatId |-> rec.id, role |-> rec.messages[1],
    content |-> <<TextPart>> ]

\* [{ ...userMessage, createdAt: new Date(), chatId: id }]
POST_userMessageRecord(r, rec) ==
  [ id |-> <<"in", r, rec.userMessage>>, chatId |-> rec.id, role |-> "user",
    content |-> <<TextPart>> ]

\* lines 44-68: parse the body, resolve the session, make the three checks
POST_Begin(r) ==
  /\ rq[r].pc = "idle"
  /\ \E id \in ChatIds, session \in Sessions, modelId \in ModelIds,
        messages \in Histories(r) :
       LET userMessage == getMostRecentUserMessage(messages)
           rec == [rq[r] EXCEPT !.kind = "POST", !.id = id,
                     !.session = session, !.modelId = modelId,
                     !.messages = messages, !.userMessage = userMessage]
           status == POST_validate(session, modelId, userMessage)
       IN  Set(r, IF status # 0 THEN Respond(rec, status)
                  ELSE [rec EXCEPT !.pc = "getChatById"])
  /\ UNCHANGED <<chats, msgs>>

\* line 70
POST_getChatById(r) ==
  /\ rq[r].kind = "POST" /\ rq[r].pc = "getChatById"
  /\ \E ok \in BOOLEAN :
       LET rec == Called(rq[r], "getChatById")
           got == [rec EXCEPT !.chat = getChatById(rec.id)]
       IN  Set(r, IF ok THEN [got EXCEPT !.pc = POST_next(got)] ELSE Throw(rec))
  /\ UNCHANGED <<chats, msgs>>

\* line 73
POST_generateTitle(r) ==
  /\ rq[r].kind = "POST" /\ rq[r].pc = "generateTitle"
  /\ \E ok \in BOOLEAN :
       LET rec == Called(rq[r], "generateTitle")
           got == [rec EXCEPT
                     !.title = generateTitleFromUserMessage(rec.userMessage)]
       IN  Set(r, IF ok THEN [got EXCEPT !.pc = POST_next(got)] ELSE Throw(rec))
  /\ UNCHANGED <<chats, msgs>>

\* line 74: the store refuses a second record for an id it already holds
POST_saveChat(r) ==
  /\ rq[r].kind = "POST" /\ rq[r].pc = "saveChat"
  /\ LET rec == Called(rq[r], "saveChat")
         new == POST_chatRecord(rec)
     IN  \E ok \in BOOLEAN :
           IF ok /\ chats[rec.id] = NoChat
           THEN /\ saveChat(rec.id, new.userId, new.title)
                /\ Set(r, [rec EXCEPT !.created = new, !.pc = POST_next(rec)])
           ELSE /\ Set(r, Throw(rec))
                /\ UNCHANGED chats
  /\ UNCHANGED msgs

\* lines 77-79
POST_saveMessages(r) ==
  /\ rq[r].kind = "POST" /\ rq[r].pc = "saveMessages"
  /\ LET rec == Called(rq[r], "saveMessages")
     IN  \E ok \in BOOLEAN :
           IF ok
           THEN /\ saveMessages(<<POST_userMessageRecord(r, rec)>>)
                /\ Set(r, [rec EXCEPT !.pc = POST_next(rec)])
           ELSE /\ Set(r, Throw(rec))
                /\ UNCHANGED msgs
  /\ UNCHANGED chats

\* ----------------------------------------------------------- the stream
Event(type, content) == [type |-> type, content |-> content]

generateUUID(r) == <<"uuid", r>>

\* the metadata event is not written
writeData_dropped(dataStream, value) == dataStream

\* dataStream.writeData(value)
writeData(dataStream, value) == Append(dataStream, value)

Types(dataStream) == [i \in 1 .. Len(dataStream) |-> dataStream[i].type]

Terminal == {"finish", "error"}

\* lines 80-149: the response is returned open, execute writes the metadata
\* event and starts the engine, whose events are merged into the stream
POST_createDataStreamResponse(r) ==
  /\ rq[r].kind = "POST" /\ rq[r].pc = "createDataStreamResponse"
  /\ LET userMessageId == generateUUID(r)
         rec == Called(rq[r], "streamText")
     IN  Set(r, [rec EXCEPT
                   !.status = 200,
                   !.dataStream = writeData(@, Event("metadata", userMessageId)),
                   !.pc = "streaming"])
  /\ UNCHANGED <<chats, msgs>>

\* --------------------------------------------------- the engine, streamText
Emit(rec, type) == [rec EXCEPT !.dataStream = Append(@, Event(type, <<>>))]

Message(r, n, role, content) ==
  [id |-> <<"out", r, n>>, role |-> role, content |-> content]

Produce(r, rec, role, content) ==
  [rec EXCEPT !.response = Append(@, Message(r, Len(@) + 1, role, content))]

\* text of the step the model is in
Engine_textDelta(r) ==
  /\ rq[r].pc = "streaming" /\ rq[r].pendingCall = 0
  /\ rq[r].steps < maxSteps /\ rq[r].deltas < MaxDeltas
  /\ Set(r, [Emit(rq[r], "text-delta") EXCEPT
               !.stepText = TRUE, !.deltas = @ + 1])
  /\ UNCHANGED <<chats, msgs>>

\* the model decides to call one tool of the catalog
Engine_toolCallStep(r) ==
  /\ rq[r].pc = "streaming" /\ rq[r].pendingCall = 0
  /\ rq[r].steps < maxSteps
  /\ LET rec == rq[r]
         k == rec.steps + 1
         content == (IF rec.stepText THEN <<TextPart>> ELSE <<>>)
                      \o <<Part("tool-call", <<r, k>>)>>
     IN  Set(r, [Produce(r, Emit(rec, "tool-call"), "assistant", content)
                   EXCEPT !.steps = k, !.pendingCall = k, !.stepText = FALSE])
  /\ UNCHANGED <<chats, msgs>>

\* the same, for a model that elects at most MaxCalls calls in a turn
Engine_toolCall(r) == rq[r].steps < MaxCalls /\ Engine_toolCallStep(r)

\* the tool's execute has returned
Engine_toolResult(r) ==
  /\ rq[r].pc = "streaming" /\ rq[r].pendingCall # 0
  /\ LET rec == rq[r]
         content == <<Part("tool-result", <<r, rec.pendingCall>>)>>
     IN  Set(r, [Produce(r, Emit(rec, "tool-result"), "tool", content)
                   EXCEPT !.pendingCall = 0])
  /\ UNCHANGED <<chats, msgs>>

\* the turn ends: the model signals completion, the step budget is used up,
\* or a call is left without its result; onFinish is then called
Engine_finish(r) ==
  /\ rq[r].pc = "streaming"
  /\ LET rec == Emit(rq[r], "finish")
         completes == rec.pendingCall = 0 /\ rec.steps < maxSteps
         said == IF rec.stepText
                 THEN Produce(r, rec, "assistant", <<TextPart>>) ELSE rec
     IN  Set(r, [said EXCEPT
                   !.steps = IF completes THEN @ + 1 ELSE @,
                   !.stepText = FALSE, !.pc = "onFinish"])
  /\ UNCHANGED <<chats, msgs>>

\* the backend model call fails: onFinish is not called
Engine_error(r) ==
  /\ rq[r].pc = "streaming"
  /\ Set(r, [Emit(rq[r], "error") EXCEPT !.pc = "done"])
  /\ UNCHANGED <<chats, msgs>>

\* the response body ends only when onFinish has returned
Stream_close_afterOnFinish(r) ==
  /\ ~rq[r].closed
  /\ rq[r].dataStream # <<>>
  /\ rq[r].dataStream[Len(rq[r].dataStream)].type \in Terminal
  /\ rq[r].pc = "done"
  /\ Set(r, [rq[r] EXCEPT !.closed = TRUE])
  /\ UNCHANGED <<chats, msgs>>

\* the response body ends after the terminal event
Stream_close(r) ==
  /\ ~rq[r].closed
  /\ rq[r].dataStream # <<>>
  /\ rq[r].dataStream[Len(rq[r].dataStream)].type \in Terminal
  /\ Set(r, [rq[r] EXCEPT !.closed = TRUE])
  /\ UNCHANGED <<chats, msgs>>

\* ------------------------------------------------------------- onFinish
ToolResultIds(messages) ==
  {messages[i].content[j].toolCallId :
     <<i, j>> \in {<<i, j>> \in (1 .. Len(messages)) \X (1 .. maxSteps) :
                     /\ messages[i].role = "tool"
                     /\ j <= Len(messages[i].content)
                     /\ messages[i].content[j].type = "tool-result"}}

\* drops every tool-call part no tool-result of the list answers, and every
\* message left without content
sanitizeResponseMessages(messages) ==
  LET answered == ToolResultIds(messages)
      keep(p) == p.type = "tool-call" => p.toolCallId \in answered
      clean(m) == [m EXCEPT !.content = SelectSeq(@, keep)]
  IN  SelectSeq([i \in 1 .. Len(messages) |-> clean(messages[i])],
                LAMBDA m : Len(m.content) > 0)

\* response.messages saved as the engine returned them
onFinish_messages_raw(rec) ==
  [i \in 1 .. Len(rec.response) |->
     [id |-> rec.response[i].id, chatId |-> rec.id,
      role |-> rec.response[i].role, content |-> rec.response[i].content]]

\* the list onFinish hands to saveMessages, lines 120-134
onFinish_messages(rec) ==
  LET responseMessagesWithoutIncompleteToolCalls ==
        sanitizeResponseMessages(rec.response)
  IN  [i \in 1 .. Len(responseMessagesWithoutIncompleteToolCalls) |->
         [id |-> responseMessagesWithoutIncompleteToolCalls[i].id,
          chatId |-> rec.id,
          role |-> responseMessagesWithoutIncompleteToolCalls[i].role,
          content |-> responseMessagesWithoutIncompleteToolCalls[i].content]]

\* no catch: the rejection of onFinish fails the stream
onFinish_rethrow(rec) == [rec EXCEPT
  !.dataStream = Append(@, [type |-> "error", content |-> <<>>]),
  !.pc = "done"]

\* catch (error) { console.error('Failed to save chat') }
onFinish_catch(rec) == [rec EXCEPT !.logged = @ + 1, !.pc = "done"]

WriteBack(rec, outcome) == [rec EXCEPT !.writeBack = outcome]

\* lines 117-140
onFinish(r) ==
  /\ rq[r].pc = "onFinish"
  /\ LET rec == rq[r]
     IN  IF userIdOf(rec.session) = "undefined"
         THEN Set(r, [rec EXCEPT !.pc = "done"]) /\ UNCHANGED msgs
         ELSE \E outcome \in {"saved", "sanitizeThrows", "saveFails"} :
                LET sanitized == Called(WriteBack(rec, outcome), "sanitize")
                    saving == Called(sanitized, "saveMessages")
                IN  CASE outcome = "saved" ->
                           /\ saveMessages(onFinish_messages(rec))
                           /\ Set(r, [saving EXCEPT !.pc = "done"])
                      [] outcome = "sanitizeThrows" ->
                           /\ Set(r, onFinish_catch(Rejects(sanitized)))
                           /\ UNCHANGED msgs
                      [] outcome = "saveFails" ->
                           /\ Set(r, onFinish_catch(Rejects(saving)))
                           /\ UNCHANGED msgs
  /\ UNCHANGED chats

\* ---------------------------------------------------------------- DELETE
\* lines 153-164
DELETE_validate(hasId, session) ==
  IF ~hasId THEN 404
  ELSE IF session \in {"null", "nouser"} THEN 401
  ELSE 0

\* catch (error) { return new Response(..., { status: 500 }) }
DELETE_catch(rec) == Respond(rec, 500)

\* the owner is not compared with the caller
DELETE_check_anyCaller(chat, session) ==
  IF chat = NoChat THEN "TypeError" ELSE "deleteChatById"

\* === written for !==
DELETE_check_ownerRefused(chat, session) ==
  IF chat = NoChat THEN "TypeError"
  ELSE IF chat.userId = userIdOf(session) THEN "Unauthorized"
  ELSE "deleteChatById"

\* chat?.userId: no chat compares unequal instead of throwing
DELETE_check_nullSafe(chat, session) ==
  IF chat = NoChat THEN "Unauthorized"
  ELSE IF chat.userId # userIdOf(session) THEN "Unauthorized"
  ELSE "deleteChatById"

\* lines 167-171: what the lookup's result leads to
DELETE_check(chat, session) ==
  IF chat = NoChat THEN "TypeError"           \* chat.userId of no chat
  ELSE IF chat.userId # userIdOf(session) THEN "Unauthorized"
  ELSE "deleteChatById"

\* lines 152-164
DELETE_Begin(r) ==
  /\ rq[r].pc = "idle"
  /\ \E id \in ChatIds \cup {NoId}, session \in Sessions :
       LET rec == [rq[r] EXCEPT !.kind = "DELETE", !.id = id,
                     !.session = session]
           status == DELETE_validate(id # NoId, session)
       IN  Set(r, IF status # 0 THEN Respond(rec, status)
                  ELSE [rec EXCEPT !.pc = "getChatById"])
  /\ UNCHANGED <<chats, msgs>>

\* lines 166-171, and the catch of line 176
DELETE_getChatById(r) ==
  /\ rq[r].kind = "DELETE" /\ rq[r].pc = "getChatById"
  /\ \E ok \in BOOLEAN :
       LET rec == Called(rq[r], "getChatById")
           got == [rec EXCEPT !.chat = getChatById(rec.id)]
           check == DELETE_check(got.chat, got.session)
       IN  Set(r, IF ~ok THEN DELETE_catch(Rejects(rec))
                  ELSE IF check = "TypeError"
                    THEN DELETE_catch([got EXCEPT !.thrown = check])
                  ELSE IF check = "Unauthorized" THEN Respond(got, 401)
                  ELSE [got EXCEPT !.pc = check])
  /\ UNCHANGED <<chats, msgs>>

\* lines 173-175, and the catch of line 176
DELETE_deleteChatById(r) ==
  /\ rq[r].kind = "DELETE" /\ rq[r].pc = "deleteChatById"
  /\ LET rec == Called(rq[r], "deleteChatById")
     IN  \E ok \in BOOLEAN :
           IF ok
           THEN /\ deleteChatById(rec.id)
                /\ Set(r, Respond(rec, 200))
           ELSE /\ Set(r, DELETE_catch(Rejects(rec)))
                /\ UNCHANGED <<chats, msgs>>

\* ------------------------------------------------------------------ Next
Next ==
  \E r \in Reqs :
    \/ POST_Begin(r)
    \/ POST_getChatById(r)
    \/ POST_generateTitle(r)
    \/ POST_saveChat(r)
    \/ POST_saveMessages(r)
    \/ POST_createDataStreamResponse(r)
    \/ Engine_textDelta(r)
    \/ Engine_toolCall(r)
    \/ Engine_toolResult(r)
    \/ Engine_finish(r)
    \/ Engine_error(r)
    \/ Stream_close(r)
    \/ onFinish(r)
    \/ DELETE_Begin(r)
    \/ DELETE_getChatById(r)
    \/ DELETE_deleteChatById(r)

Spec == Init /\ [][Next]_vars

\* ------------------------------------------ one turn with its whole budget
\* One request at a time, the model free to call a tool at every step. The
\* engine keeps running while the turn is open and the body of the response
\* ends once the terminal event is written; the write-back may never return.
TurnReqs == {1}

Engine(r) ==
  \/ Engine_textDelta(r)
  \/ Engine_toolCallStep(r)
  \/ Engine_toolResult(r)
  \/ Engine_finish(r)
  \/ Engine_error(r)

NextTurn ==
  \E r \in TurnReqs :
    \/ POST_Begin(r)
    \/ POST_getChatById(r)
    \/ POST_generateTitle(r)
    \/ POST_saveChat(r)
    \/ POST_saveMessages(r)
    \/ POST_createDataStreamResponse(r)
    \/ Engine_textDelta(r)
    \/ Engine_toolCallStep(r)
    \/ Engine_toolResult(r)
    \/ Engine_finish(r)
    \/ Engine_error(r)
    \/ Stream_close(r)
    \/ onFinish(r)

TurnFairness ==
  \A r \in TurnReqs : WF_vars(Engine(r)) /\ WF_vars(Stream_close(r))

SpecTurn == Init /\ [][NextTurn]_vars /\ TurnFairness

\* ================================================================ claims
IsPost(r) == rq[r].kind = "POST"
IsDelete(r) == rq[r].kind = "DELETE"
Streams(r) == rq[r].dataStream # <<>>
Before(seq, x, y) ==
  \E i, j \in 1 .. Len(seq) : i < j /\ seq[i] = x /\ seq[j] = y
IsPrefix(s, t) == Len(s) <= Len(t) /\ \A i \in 1 .. Len(s) : s[i] = t[i]
\* the lookup of a turn submission returned no chat
FoundNoChat(r) ==
  /\ IsPost(r) /\ rq[r].calls # <<>> /\ rq[r].thrown # "getChatById"
  /\ rq[r].chat = NoChat

\* C1: a turn submission whose lookup finds no chat and that emits a stream
\* event has called saveChat exactly once, with the caller as owner, and
\* did so before the engine was started.
C1_ChatCreatedOnceBeforeStream ==
  \A r \in Reqs :
    FoundNoChat(r) /\ Streams(r) =>
      /\ Count(rq[r].calls, "saveChat") = 1
      /\ rq[r].created # NoChat
      /\ rq[r].created.userId = rq[r].session
      /\ Before(rq[r].calls, "saveChat", "streamText")

C1_Witness ==
  \E r \in Reqs :
    /\ FoundNoChat(r) /\ Len(rq[r].dataStream) >= 2
    /\ rq[r].created.userId = "B"

\* C2: whenever a stream event of a turn has been emitted, saveMessages for
\* the user message had returned before the engine was started; and unless
\* a DELETE removed the conversation since, the store holds that message.
C2_UserMessageBeforeEvents ==
  \A r \in Reqs :
    Streams(r) =>
      /\ Before(rq[r].calls, "saveMessages", "streamText")
      /\ (\A q \in Reqs : ~(IsDelete(q) /\ rq[q].id = rq[r].id
                              /\ Count(rq[q].calls, "deleteChatById") > 0))
           => \E i \in 1 .. Len(msgs) :
                /\ msgs[i].id = <<"in", r, rq[r].userMessage>>
                /\ msgs[i].chatId = rq[r].id
                /\ msgs[i].role = "user"

C2_Witness ==
  \E r \in Reqs :
    /\ Len(rq[r].dataStream) >= 2
    /\ rq[r].dataStream[2].type \in {"text-delta", "tool-call"}
    /\ rq[r].pc = "streaming"

\* the calls of a turn for a conversation that has no chat record
NewChatOrder ==
  <<"getChatById", "generateTitle", "saveChat", "saveMessages", "streamText">>
Firsts(seq, n) == SubSeq(seq, 1, IF Len(seq) < n THEN Len(seq) ELSE n)

\* C3: in a turn whose lookup finds no chat the calls are made in the order
\* title synthesis, chat creation, user-message persistence, generation
\* start, each after the one before it returned.
C3_CallOrder ==
  \A r \in Reqs :
    FoundNoChat(r) =>
      /\ IsPrefix(Firsts(rq[r].calls, 5), NewChatOrder)
      /\ Streams(r) => Firsts(rq[r].calls, 5) = NewChatOrder

C3_Witness ==
  \E r \in Reqs : FoundNoChat(r) /\ rq[r].calls = NewChatOrder

LastType(r) == rq[r].dataStream[Len(rq[r].dataStream)].type

\* C4: when sanitization throws or the finish-time saveMessages fails, the
\* failure is logged and nothing else: the response keeps status 200, the
\* stream ends with its finish event and holds no error event.
C4_WriteBackFailureAbsorbed ==
  \A r \in Reqs :
    rq[r].writeBack \in {"sanitizeThrows", "saveFails"} =>
      /\ rq[r].status = 200
      /\ LastType(r) = "finish"
      /\ Count(Types(rq[r].dataStream), "error") = 0
      /\ Count(Types(rq[r].dataStream), "finish") = 1
      /\ rq[r].logged = 1
      /\ rq[r].pc = "done"

C4_Witness ==
  \E r, q \in Reqs :
    /\ rq[r].writeBack = "saveFails" /\ rq[r].closed
    /\ rq[q].writeBack = "sanitizeThrows" /\ rq[q].closed

\* the lookup of a DELETE returned a chat that the caller does not own
ForeignChat(r) ==
  /\ IsDelete(r) /\ rq[r].chat # NoChat
  /\ rq[r].chat.userId # userIdOf(rq[r].session)

C5_Refused ==
  \A r \in Reqs :
    ForeignChat(r) =>
      /\ rq[r].status = 401 /\ rq[r].pc = "done"
      /\ Count(rq[r].calls, "deleteChatById") = 0

C5_Frame ==
  \A r \in Reqs :
    IsDelete(r) /\ rq[r].status = 0 /\ rq'[r].status = 401 =>
      UNCHANGED <<chats, msgs>>

\* C5: a DELETE whose lookup returns a chat owned by another user answers
\* 401, never calls deleteChatById, and the step that answers 401 leaves
\* the chat records and the message table as they were.
C5_ForeignDeleteRefused == []C5_Refused /\ [][C5_Frame]_vars

C5_Witness ==
  \E r \in Reqs :
    /\ ForeignChat(r) /\ rq[r].session = "B" /\ rq[r].chat.userId = "A"
    /\ rq[r].status = 401
    /\ chats[rq[r].id] = rq[r].chat
    /\ \E i \in 1 .. Len(msgs) : msgs[i].chatId = rq[r].id

\* the lookup of a DELETE returned a chat that the caller owns
OwnChat(r) ==
  /\ IsDelete(r) /\ rq[r].chat # NoChat
  /\ rq[r].chat.userId = userIdOf(rq[r].session)

C6_Answer ==
  \A r \in Reqs :
    /\ OwnChat(r) =>
         \/ rq[r].pc = "deleteChatById" /\ rq[r].status = 0
         \/ /\ rq[r].pc = "done"
            /\ rq[r].calls = <<"getChatById", "deleteChatById">>
            /\ rq[r].status = IF rq[r].thrown = "" THEN 200 ELSE 500
    /\ IsDelete(r) /\ rq[r].status = 200 => OwnChat(r)

C6_Removes ==
  \A r \in Reqs :
    IsDelete(r) /\ rq[r].status = 0 /\ rq'[r].status = 200 =>
      /\ chats'[rq[r].id] = NoChat
      /\ \A i \in 1 .. Len(msgs') : msgs'[i].chatId # rq[r].id

\* C6: a DELETE whose lookup returns a chat the caller owns calls
\* deleteChatById and answers 200 when that call returns; the step that
\* answers 200 leaves no chat record (and no message) under the id, and a
\* DELETE answers 200 only when its lookup found a chat of the caller, so a
\* DELETE that looks the conversation up after its removal does not.
C6_OwnerDeleteRemoves == []C6_Answer /\ [][C6_Removes]_vars

C6_Witness ==
  \E r, q \in Reqs :
    /\ r # q /\ IsDelete(r) /\ IsDelete(q)
    /\ rq[r].id = rq[q].id /\ rq[r].session = rq[q].session
    /\ rq[r].status = 200
    /\ rq[q].status = 500 /\ rq[q].thrown = "TypeError"
    /\ chats[rq[r].id] = NoChat

\* the status the three preconditions of a turn submission call for
Rejection(r) ==
  IF rq[r].session \notin Users THEN 401
  ELSE IF rq[r].modelId \notin models THEN 404
  ELSE IF \A i \in 1 .. Len(rq[r].messages) : rq[r].messages[i] # "user"
    THEN 400
  ELSE 0

\* C7: a turn submission that is unauthenticated, names an unknown model or
\* holds no user message is answered 401, 404, 400 in that precedence,
\* without any lookup, title, write, engine start or stream event; and no
\* other submission is answered with one of these.
C7_RejectedBeforeStreaming ==
  \A r \in Reqs :
    IsPost(r) =>
      /\ Rejection(r) # 0 =>
           /\ rq[r].status = Rejection(r) /\ rq[r].pc = "done"
           /\ rq[r].calls = <<>> /\ rq[r].dataStream = <<>>
           /\ rq[r].title = 0 /\ rq[r].created = NoChat
           /\ \A i \in 1 .. Len(msgs) : msgs[i].id[2] # r
      /\ Rejection(r) = 0 => rq[r].status \notin {400, 401, 404}

C7_Witness ==
  \E r, q \in Reqs :
    /\ IsPost(r) /\ rq[r].status = 401 /\ rq[r].modelId \notin models
    /\ rq[r].messages = <<"assistant">>
    /\ IsPost(q) /\ rq[q].status = 404 /\ rq[q].messages = <<>>

HasPart(m, type, callId) ==
  \E j \in 1 .. Len(m.content) :
    m.content[j].type = type /\ m.content[j].toolCallId = callId

\* a tool-call part of messages[i] that no tool-result of the list answers
Dangling(messages, i) ==
  \E j \in 1 .. Len(messages[i].content) :
    /\ messages[i].content[j].type = "tool-call"
    /\ ~\E k \in 1 .. Len(messages) :
          /\ messages[k].role = "tool"
          /\ HasPart(messages[k], "tool-result",
                     messages[i].content[j].toolCallId)

\* C8: no persisted message holds a tool call without its result, none is
\* empty, and every persisted response message is a message of the
\* sanitized response of the turn that wrote it.
C8_NoIncompleteToolCallPersisted ==
  /\ \A i \in 1 .. Len(msgs) :
       ~Dangling(msgs, i) /\ msgs[i].content # <<>>
  /\ \A i \in 1 .. Len(msgs) :
       msgs[i].id[1] = "out" =>
         LET r == msgs[i].id[2]
             clean == sanitizeResponseMessages(rq[r].response)
         IN  /\ rq[r].writeBack = "saved"
             /\ \E n \in 1 .. Len(clean) :
                  /\ clean[n].id = msgs[i].id
                  /\ clean[n].role = msgs[i].role
                  /\ clean[n].content = msgs[i].content

C8_Witness ==
  \E r \in Reqs :
    /\ rq[r].writeBack = "saved"
    /\ \E i \in 1 .. Len(rq[r].response) : Dangling(rq[r].response, i)
    /\ \E i \in 1 .. Len(msgs) : msgs[i].id[1] = "out" /\ msgs[i].id[2] = r

\* C9: a DELETE that passes the session check and whose lookup returns no
\* chat answers 500 and never calls deleteChatById.
C9_DeleteOfNoChatFails ==
  \A r \in Reqs :
    (/\ IsDelete(r) /\ rq[r].calls # <<>>
     /\ rq[r].thrown # "getChatById" /\ rq[r].chat = NoChat) =>
      /\ rq[r].status = 500 /\ rq[r].pc = "done"
      /\ rq[r].thrown = "TypeError"
      /\ Count(rq[r].calls, "deleteChatById") = 0

C9_Witness ==
  \E r \in Reqs :
    /\ IsDelete(r) /\ rq[r].session \in Users
    /\ rq[r].calls = <<"getChatById">> /\ rq[r].thrown = "TypeError"
    /\ rq[r].status = 500

\* C10: the first event of every stream is the metadata event carrying the
\* identifier generated for the turn, and it is the only metadata event.
C10_MetadataFirstAndOnce ==
  \A r \in Reqs :
    Streams(r) =>
      /\ rq[r].dataStream[1] = Event("metadata", generateUUID(r))
      /\ Count(Types(rq[r].dataStream), "metadata") = 1
      /\ rq[r].status = 200

C10_Witness ==
  \E r \in Reqs :
    /\ Len(rq[r].dataStream) >= 4
    /\ rq[r].dataStream[1].type = "metadata"
    /\ LastType(r) = "finish"

\* the write-back of onFinish has been started
WriteBackStarted(r) == rq[r].pc = "onFinish" \/ rq[r].writeBack # ""

ToolCalls(r) == Count(Types(rq[r].dataStream), "tool-call")
ToolResults(r) == Count(Types(rq[r].dataStream), "tool-result")

C12_Bounded ==
  \A r \in Reqs :
    /\ rq[r].steps <= 5
    /\ ToolCalls(r) <= 5 /\ ToolResults(r) <= ToolCalls(r)
    /\ ToolCalls(r) <= rq[r].steps

C12_Terminates ==
  \A r \in Reqs :
    (rq[r].pc = "streaming") ~> (Streams(r) /\ LastType(r) \in Terminal)

\* C12: a turn takes at most 5 model-decision steps, so it executes at most
\* 5 tools, and every turn whose generation has started reaches a terminal
\* event, also when the model calls a tool at every step.
C12_StepBudget == []C12_Bounded /\ C12_Terminates

C12_Witness ==
  \E r \in Reqs :
    /\ rq[r].steps = 5 /\ ToolResults(r) = 5
    /\ LastType(r) = "finish"

TerminalEvents(r) ==
  {i \in 1 .. Len(rq[r].dataStream) : rq[r].dataStream[i].type \in Terminal}

C13_OneTerminal ==
  \A r \in Reqs :
    /\ Cardinality(TerminalEvents(r)) <= 1
    /\ TerminalEvents(r) \subseteq {Len(rq[r].dataStream)}
    /\ rq[r].closed => Streams(r) /\ LastType(r) \in Terminal
    /\ (Streams(r) /\ LastType(r) = "error") =>
         /\ rq[r].status = 200 /\ rq[r].dataStream[1].type = "metadata"
         /\ ~WriteBackStarted(r)
    /\ Count(rq[r].calls, "sanitize") <= 1
    /\ WriteBackStarted(r) => Streams(r) /\ LastType(r) = "finish"

C13_Closes ==
  \A r \in Reqs : (rq[r].pc = "streaming") ~> rq[r].closed

\* C13: a stream holds at most one terminal event, finish or error, and it
\* is its last event; a failure of the model call is an error event in the
\* stream of a response already answered with 200; every started generation
\* is eventually closed; the write-back runs at most once and only after a
\* finish event.
C13_ExactlyOneTerminalEvent == []C13_OneTerminal /\ C13_Closes

C13_Witness ==
  \E r \in Reqs :
    /\ rq[r].closed /\ LastType(r) = "error"
    /\ Len(rq[r].dataStream) > 2 /\ rq[r].status = 200

\* the caller of a DELETE is not authenticated: auth() gave no session, a
\* session without user, or a user without id (the test of line 54)
Unauthenticated(r) == userIdOf(rq[r].session) = "undefined"

\* C14: a DELETE without id is answered 404 whatever the session, with no
\* store call; a DELETE with an id from an unauthenticated caller makes no
\* store call and is answered 401.
C14_DeleteRejectedBeforeStore ==
  \A r \in Reqs :
    IsDelete(r) =>
      /\ rq[r].id = NoId =>
           rq[r].status = 404 /\ rq[r].pc = "done" /\ rq[r].calls = <<>>
      /\ (rq[r].id # NoId /\ Unauthenticated(r)) =>
           /\ rq[r].calls = <<>>
           /\ rq[r].pc = "done" => rq[r].status = 401

\* the lookup of a turn submission returned a chat record
FoundChat(r) ==
  /\ IsPost(r) /\ rq[r].calls # <<>> /\ rq[r].thrown # "getChatById"
  /\ rq[r].chat # NoChat

C15_NoCreation ==
  \A r \in Reqs :
    FoundChat(r) =>
      /\ Count(rq[r].calls, "generateTitle") = 0
      /\ Count(rq[r].calls, "saveChat") = 0
      /\ rq[r].title = 0 /\ rq[r].created = NoChat

C15_Frame ==
  /\ \A r \in Reqs : (FoundChat(r) /\ rq'[r] # rq[r]) => chats' = chats
  /\ \A c \in ChatIds :
       chats'[c] # chats[c] =>
         \/ /\ chats[c] = NoChat
            /\ \E r \in Reqs :
                 /\ FoundNoChat(r) /\ rq[r].id = c /\ rq[r].pc = "saveChat"
                 /\ rq'[r].created = chats'[c]
         \/ /\ chats'[c] = NoChat
            /\ \E r \in Reqs :
                 /\ IsDelete(r) /\ rq[r].id = c
                 /\ rq[r].status = 0 /\ rq'[r].status = 200

LastUser(r) ==
  CHOOSE i \in 1 .. Len(rq[r].messages) :
    /\ rq[r].messages[i] = "user"
    /\ \A j \in (i + 1) .. Len(rq[r].messages) : rq[r].messages[j] # "user"

\* the persisted messages that request r took from its history
Inbound(r) ==
  {i \in 1 .. Len(msgs) : msgs[i].id[1] = "in" /\ msgs[i].id[2] = r}

C16_Appends ==
  \A r \in Reqs :
    (IsPost(r) /\ rq[r].pc = "saveMessages"
       /\ rq'[r].pc = "createDataStreamResponse") =>
      msgs' = Append(msgs, [id |-> <<"in", r, LastUser(r)>>,
                            chatId |-> rq[r].id, role |-> "user",
                            content |-> <<TextPart>>])

C16_Once ==
  \A r \in Reqs :
    IsPost(r) =>
      /\ Cardinality(Inbound(r)) <= 1
      /\ \A i \in Inbound(r) :
           msgs[i].id[3] = LastUser(r) /\ msgs[i].chatId = rq[r].id
      /\ Streams(r) =>
           Cardinality({i \in 1 .. Len(rq[r].calls) :
                          /\ rq[r].calls[i] = "saveMessages"
                          /\ \E j \in (i + 1) .. Len(rq[r].calls) :
                               rq[r].calls[j] = "streamText"}) = 1

\* C16: the step that persists the inbound message appends exactly one
\* message, the most recent user message of the history with the request's
\* conversation id; no other message of the history is ever persisted, and
\* a turn that streams has made exactly one such write before generation.
C16_OneUserMessageAppended == []C16_Once /\ [][C16_Appends]_vars

C16_Witness ==
  \E r \in Reqs :
    /\ IsPost(r) /\ Streams(r) /\ rq[r].messages = <<"user", "user">>
    /\ \E i \in Inbound(r) : msgs[i].id[3] = 2

\* the user a persisted message was written for: the session of the
\* request that wrote it, user A for the message of the earlier turn
WriterOf(m) == IF m.id[2] \in Reqs THEN userIdOf(rq[m.id[2]].session) ELSE "A"

\* C17: every message persisted under the id of a chat was written by a
\* request authenticated as the owner of that chat.
C17_OnlyOwnerWrites ==
  \A i \in 1 .. Len(msgs) :
    chats[msgs[i].chatId] # NoChat =>
      chats[msgs[i].chatId].userId = WriterOf(msgs[i])

\* C18: every persisted message refers to an existing chat, whatever the
\* interleaving of turn submissions and DELETEs.
C18_NoMessageOfDeletedChat ==
  \A i \in 1 .. Len(msgs) : chats[msgs[i].chatId] # NoChat

\* request r calls saveChat in this step
CallsSaveChat(r) ==
  /\ IsPost(r) /\ rq[r].pc = "saveChat"
  /\ Count(rq'[r].calls, "saveChat") = 1

\* another turn submission found no chat for the same id, called saveChat
\* and the record it created is in the store
CreatedByOther(r) ==
  \E q \in Reqs \ {r} :
    /\ FoundNoChat(q) /\ rq[q].id = rq[r].id
    /\ rq[q].created # NoChat /\ chats[rq[q].id] = rq[q].created

C19_NoSecondCreate ==
  \A r \in Reqs : CallsSaveChat(r) => ~CreatedByOther(r)

\* C19: of two turn submissions for the same id that both find no chat,
\* only one calls saveChat: no request calls saveChat for an id whose
\* record another such request has created since the caller's lookup.
C19_ChatCreatedOnceUnderRace == [][C19_NoSecondCreate]_vars

\* a call that a turn submission made before streaming has failed
FailedBeforeStream(r) ==
  /\ IsPost(r)
  /\ \/ rq[r].thrown \in {"getChatById", "generateTitle", "saveChat"}
     \/ rq[r].thrown = "saveMessages" /\ rq[r].writeBack = ""

\* the persisted messages that the engine produced for request r
Outbound(r) ==
  {i \in 1 .. Len(msgs) : msgs[i].id[1] = "out" /\ msgs[i].id[2] = r}

\* C20: after a failure of the lookup, the title synthesis, the chat
\* creation or the persistence of the user message, the request never starts
\* the engine and never emits a stream event; a request that has model
\* output has persisted its user message.
C20_NoStreamAfterEarlyFailure ==
  \A r \in Reqs :
    /\ FailedBeforeStream(r) =>
         /\ rq[r].pc = "done" /\ rq[r].dataStream = <<>> /\ ~rq[r].closed
         /\ Count(rq[r].calls, "streamText") = 0
         /\ rq[r].steps = 0 /\ rq[r].response = <<>> /\ Outbound(r) = {}
         /\ rq[r].thrown = rq[r].calls[Len(rq[r].calls)]
    /\ (IsPost(r) /\ (Streams(r) \/ rq[r].response # <<>>)) =>
         /\ Before(rq[r].calls, "saveMessages", "streamText")
         /\ ~FailedBeforeStream(r)

C20_Witness ==
  \E r, q \in Reqs :
    /\ FailedBeforeStream(r) /\ rq[r].thrown = "saveMessages"
    /\ Inbound(r) = {}
    /\ FailedBeforeStream(q) /\ rq[q].thrown = "generateTitle"

====
